---- MODULE Spec2Model ----
(***************************************************************************)
(* A model of the query-parameter encoder, the Murmur3 routing token and   *)
(* the driver error type of cdrs-tokio.                                    *)
(*                                                                         *)
(*   cassandra-protocol/src/query/query_params.rs   QueryParams,           *)
(*                                                   Murmur3Token          *)
(*   src/error.rs                                    Error                  *)
(*                                                                         *)
(* Bytes are 0..255.  A 64-bit integer is four 16-bit limbs, most          *)
(* significant first, in two's complement, so that the full i64 range is   *)
(* represented exactly.  Text is a sequence of atoms: a character of a     *)
(* caller-supplied string is one atom, a literal of the source is one      *)
(* atom.                                                                   *)
(***************************************************************************)
EXTENDS Integers, Sequences, FiniteSets, TLC

VARIABLES
    cursor,     \* the Cursor<&mut Vec<u8>> handed to serialize: [buf, pos]
    start,      \* the cursor as the caller first handed it over
    before,     \* the cursor as it was when the last call began
    last,       \* Option of the QueryParams of the last serialize call
    written,    \* the fields the last call wrote, in write order
    hist,       \* the encodings of all calls so far, concatenated in call order
    calls,      \* the number of serialize calls made
    count,      \* Option of what a call on a collection of a given size wrote
    input,      \* Option of the string last given to Murmur3Token::try_from
    result,     \* what that try_from returned
    tokA, tokB, \* two Murmur3Token values built by the caller
    rt,         \* the last render -> try_from -> render round trip
    cause,      \* Option of the value last converted into Error
    err         \* Option of the Error that conversion produced

vars == <<cursor, start, before, last, written, hist, calls, count,
          input, result, tokA, tokB, rt, cause, err>>

serVars == <<cursor, start, before, last, written, hist, calls, count>>
tokVars == <<input, result, tokA, tokB, rt>>
errVars == <<cause, err>>

(***************************************************************************)
(* Bounds of the model.                                                    *)
(***************************************************************************)
MaxCalls == 3       \* serialize calls made through one cursor
MaxBuf == 6         \* a later call is made only on a buffer no longer than this
MaxPrefix == 2      \* bytes in the buffer before the first call
MaxStrLen == 3      \* length of the enumerated try_from inputs
MaxMsgLen == 3      \* length of the enumerated General messages
MaxCount == 100     \* sizes 0..MaxCount of the value collections of SpecCount

None == [some |-> FALSE]
Some(x) == [some |-> TRUE, v |-> x]

Max(a, b) == IF a >= b THEN a ELSE b

(***************************************************************************)
(* struct QueryParams, as a record with one field per field of the struct, *)
(* in the order of the declaration.                                        *)
(***************************************************************************)
\* QueryParams::default()
DefaultParams ==
    [consistency |-> "One", with_names |-> FALSE, values |-> None,
     page_size |-> None, paging_state |-> None, serial_consistency |-> None,
     timestamp |-> None, is_idempotent |-> FALSE, keyspace |-> None,
     token |-> None, routing_key |-> None]

RECURSIVE Flatten(_, _, _)
Flatten(s, lo, hi) ==
    IF lo > hi THEN <<>>
    ELSE IF lo = hi THEN s[lo]
    ELSE LET mid == (lo + hi) \div 2
         IN  Flatten(s, lo, mid) \o Flatten(s, mid + 1, hi)

Concat(s) == Flatten(s, 1, Len(s))

(***************************************************************************)
(* Primitive codecs: big-endian fixed-width integers, length-prefixed      *)
(* blobs.  Their code (types.rs) is not among the source files; they       *)
(* follow spec sections 2, 4.1 and 6.                                      *)
(***************************************************************************)
\* a 16-bit pattern 0..65535, big-endian
ShortBytes(n) == <<n \div 256, n % 256>>

\* an i32, big-endian two's complement
IntBytes(n) ==
    LET m == IF n >= 0 THEN n ELSE n - (-2147483647 - 1)   \* the low 31 bits
        top == (m \div 16777216) + (IF n >= 0 THEN 0 ELSE 128)
    IN  <<top, (m \div 65536) % 256, (m \div 256) % 256, m % 256>>

\* an i64 given as four 16-bit limbs, big-endian
LongBytes(x) ==
    ShortBytes(x[1]) \o ShortBytes(x[2]) \o ShortBytes(x[3]) \o ShortBytes(x[4])

\* CBytes: 4-byte length, then the bytes
CBytesBytes(b) == IntBytes(Len(b)) \o b

\* Consistency -> CIntShort
ConsistencyCode(c) ==
    CASE c = "Any" -> 0
      [] c = "One" -> 1
      [] c = "Two" -> 2
      [] c = "Quorum" -> 4
      [] c = "Serial" -> 8
      [] c = "LocalSerial" -> 9

\* one bound value: 4-byte length then the bytes; null is length -1, not-set -2
ValueBytes(v) ==
    CASE v.t = "Some" -> IntBytes(Len(v.b)) \o v.b
      [] v.t = "Null" -> IntBytes(-1)
      [] v.t = "NotSet" -> IntBytes(-2)

\* QueryValues::len
QueryValuesLen(qv) == Len(qv.vals)

\* QueryValues::serialize: positional values in input order; a named entry as
\* its name (2-byte length, bytes) and then its value
QueryValuesBytes(qv) ==
    IF qv.kind = "Simple"
    THEN Concat([i \in 1..Len(qv.vals) |-> ValueBytes(qv.vals[i])])
    ELSE Concat([i \in 1..Len(qv.vals) |->
                    ShortBytes(Len(qv.vals[i].name)) \o qv.vals[i].name
                    \o ValueBytes(qv.vals[i].value)])

(***************************************************************************)
(* QueryFlags (query_flags.rs is not among the source files; the bit       *)
(* layout is that of spec section 6).                                      *)
(***************************************************************************)
VALUE == 1
WITH_NAMES_FOR_VALUES == 2
PAGE_SIZE == 4
WITH_PAGING_STATE == 8
WITH_SERIAL_CONSISTENCY == 16
WITH_DEFAULT_TIMESTAMP == 32

\* QueryFlags::empty, insert and bits over a set of flags
FlagsEmpty == {}
FlagsInsert(flags, f) == flags \cup {f}

RECURSIVE SumSet(_)
SumSet(S) == IF S = {} THEN 0 ELSE LET x == CHOOSE y \in S : TRUE IN x + SumSet(S \ {x})

FlagsBits(flags) == SumSet(flags)

\* whether bit b (a power of two) is set in byte n
BitSet(n, b) == (n \div b) % 2 = 1

(***************************************************************************)
(* QueryParams::flags                                                      *)
(***************************************************************************)
FlagsNamesOnlyWithValues(qp) ==
    LET f1 == IF qp.values.some THEN FlagsInsert(FlagsEmpty, VALUE) ELSE FlagsEmpty
        f2 == IF qp.with_names /\ qp.values.some
              THEN FlagsInsert(f1, WITH_NAMES_FOR_VALUES) ELSE f1
        f3 == IF qp.page_size.some THEN FlagsInsert(f2, PAGE_SIZE) ELSE f2
        f4 == IF qp.paging_state.some THEN FlagsInsert(f3, WITH_PAGING_STATE) ELSE f3
        f5 == IF qp.serial_consistency.some
              THEN FlagsInsert(f4, WITH_SERIAL_CONSISTENCY) ELSE f4
        f6 == IF qp.timestamp.some THEN FlagsInsert(f5, WITH_DEFAULT_TIMESTAMP) ELSE f5
    IN  f6

flags(qp) ==
    LET f1 == IF qp.values.some THEN FlagsInsert(FlagsEmpty, VALUE) ELSE FlagsEmpty
        f2 == IF qp.with_names THEN FlagsInsert(f1, WITH_NAMES_FOR_VALUES) ELSE f1
        f3 == IF qp.page_size.some THEN FlagsInsert(f2, PAGE_SIZE) ELSE f2
        f4 == IF qp.paging_state.some THEN FlagsInsert(f3, WITH_PAGING_STATE) ELSE f3
        f5 == IF qp.serial_consistency.some
              THEN FlagsInsert(f4, WITH_SERIAL_CONSISTENCY) ELSE f4
        f6 == IF qp.timestamp.some THEN FlagsInsert(f5, WITH_DEFAULT_TIMESTAMP) ELSE f5
    IN  f6

(***************************************************************************)
(* Writing through a Cursor<&mut Vec<u8>>: the bytes go to the cursor's    *)
(* position, over what is there and past the end as needed (a position     *)
(* beyond the end is first padded with zeros), and the position advances.  *)
(* `log` records which field of QueryParams each write belonged to.        *)
(***************************************************************************)
\* faulty variant: the bytes always go to the end of the buffer, as Vec::extend would
WriteAppend(c, field, bytes) ==
    [buf |-> c.buf \o bytes, pos |-> c.pos + Len(bytes), log |-> Append(c.log, field)]

Write(c, field, bytes) ==
    LET n == Len(bytes)
        newlen == Max(Len(c.buf), c.pos + n)
    IN  [buf |-> [i \in 1..newlen |->
                    IF i > c.pos /\ i <= c.pos + n THEN bytes[i - c.pos]
                    ELSE IF i <= Len(c.buf) THEN c.buf[i] ELSE 0],
         pos |-> c.pos + n,
         log |-> Append(c.log, field)]

\* `len as CIntShort`: the low 16 bits of the length
AsCIntShort(n) == n % 65536

\* the steps of serialize, each taking the cursor the step before it left
WriteHead(qp, c) ==
    Write(Write(c, "consistency", ShortBytes(ConsistencyCode(qp.consistency))),
          "flags", <<FlagsBits(flags(qp))>>)

WriteValues(qp, c) ==
    IF qp.values.some
    THEN Write(Write(c, "values", ShortBytes(AsCIntShort(QueryValuesLen(qp.values.v)))),
               "values", QueryValuesBytes(qp.values.v))
    ELSE c

WritePageSize(qp, c) ==
    IF qp.page_size.some THEN Write(c, "page_size", IntBytes(qp.page_size.v)) ELSE c

WritePagingState(qp, c) ==
    IF qp.paging_state.some
    THEN Write(c, "paging_state", CBytesBytes(qp.paging_state.v)) ELSE c

WriteSerialConsistency(qp, c) ==
    IF qp.serial_consistency.some
    THEN Write(c, "serial_consistency",
               ShortBytes(ConsistencyCode(qp.serial_consistency.v)))
    ELSE c

WriteTimestamp(qp, c) ==
    IF qp.timestamp.some THEN Write(c, "timestamp", LongBytes(qp.timestamp.v)) ELSE c

\* faulty variant: paging_state written before page_size
serializePagingFirst(qp, c) ==
    WriteTimestamp(qp, WriteSerialConsistency(qp,
        WritePageSize(qp, WritePagingState(qp, WriteValues(qp, WriteHead(qp, c))))))

\* faulty variant: an empty value collection is skipped although its flag is set
serializeSkipsEmptyValues(qp, c) ==
    WriteTimestamp(qp, WriteSerialConsistency(qp, WritePagingState(qp,
        WritePageSize(qp,
            IF qp.values.some /\ QueryValuesLen(qp.values.v) = 0
            THEN WriteHead(qp, c) ELSE WriteValues(qp, WriteHead(qp, c))))))

\* faulty variant: the keyspace is written after the flags
serializeWithKeyspace(qp, c) ==
    WriteTimestamp(qp, WriteSerialConsistency(qp, WritePagingState(qp,
        WritePageSize(qp, WriteValues(qp,
            IF qp.keyspace.some
            THEN Write(WriteHead(qp, c), "keyspace", <<0, 2, 107, 115>>)
            ELSE WriteHead(qp, c))))))

(***************************************************************************)
(* impl Serialize for QueryParams                                          *)
(***************************************************************************)
serialize(qp, c) ==
    LET c2 == WriteHead(qp, c)
        c3 == WriteValues(qp, c2)
        c4 == WritePageSize(qp, c3)
        c5 == WritePagingState(qp, c4)
        c6 == WriteSerialConsistency(qp, c5)
        c7 == WriteTimestamp(qp, c6)
    IN  c7

\* Cursor::new(&mut Vec::new())
NewCursor == [buf |-> <<>>, pos |-> 0, log |-> <<>>]

\* the bytes of a value serialized into a fresh, empty buffer
Encoding(qp) == serialize(qp, NewCursor).buf

(***************************************************************************)
(* 64-bit integers: four 16-bit limbs, most significant first.  As an i64  *)
(* the pattern is two's complement; as a u64 it is a magnitude.            *)
(***************************************************************************)
Limb == 65536

I64Zero == <<0, 0, 0, 0>>
I64One == <<0, 0, 0, 1>>
I64MinusOne == <<65535, 65535, 65535, 65535>>
I64Max == <<32767, 65535, 65535, 65535>>
I64Min == <<32768, 0, 0, 0>>

IsNegative(x) == x[1] >= 32768

U64Lt(x, y) ==
    \E i \in 1..4 : x[i] < y[i] /\ \A j \in 1..(i - 1) : x[j] = y[j]

\* i64 `<`: a negative pattern is below a non-negative one; two patterns of the
\* same sign compare as their bit patterns do
I64Lt(x, y) ==
    IF IsNegative(x) # IsNegative(y) THEN IsNegative(x) ELSE U64Lt(x, y)

\* x * k + d over 64 bits, with the carry out of the top limb
MulAdd(x, k, d) ==
    LET t4 == x[4] * k + d
        t3 == x[3] * k + t4 \div Limb
        t2 == x[2] * k + t3 \div Limb
        t1 == x[1] * k + t2 \div Limb
    IN  [v |-> <<t1 % Limb, t2 % Limb, t3 % Limb, t4 % Limb>>, carry |-> t1 \div Limb]

\* x / 10 and x % 10 over 64 bits
DivMod10(x) ==
    LET c1 == x[1]
        c2 == (c1 % 10) * Limb + x[2]
        c3 == (c2 % 10) * Limb + x[3]
        c4 == (c3 % 10) * Limb + x[4]
    IN  [q |-> <<c1 \div 10, c2 \div 10, c3 \div 10, c4 \div 10>>, r |-> c4 % 10]

\* wrapping negation: (!x).wrapping_add(1)
WrappingNeg(x) ==
    MulAdd(<<65535 - x[1], 65535 - x[2], 65535 - x[3], 65535 - x[4]>>, 1, 1).v

Digits == <<"0", "1", "2", "3", "4", "5", "6", "7", "8", "9">>
IsDigit(ch) == \E i \in 1..10 : Digits[i] = ch
DigitVal(ch) == (CHOOSE i \in 1..10 : Digits[i] = ch) - 1

(***************************************************************************)
(* <i64 as Display>::fmt, what to_string renders: the digits of the        *)
(* magnitude, least significant first, behind a minus sign for a negative  *)
(* value.                                                                  *)
(***************************************************************************)
RECURSIVE U64Digits(_)
U64Digits(x) ==
    LET dm == DivMod10(x)
    IN  IF dm.q = I64Zero THEN <<Digits[dm.r + 1]>>
        ELSE Append(U64Digits(dm.q), Digits[dm.r + 1])

I64ToString(x) ==
    IF IsNegative(x) THEN <<"-">> \o U64Digits(WrappingNeg(x)) ELSE U64Digits(x)

(***************************************************************************)
(* <i64 as FromStr>::from_str, what str::parse::<i64> runs: an optional    *)
(* sign, then digits accumulated with checked arithmetic.  The accumulator *)
(* is kept as the magnitude m of the running result (the result is m for a *)
(* positive input and -m for a negative one), so that checked_mul followed *)
(* by checked_add overflows exactly when 10 m + d > i64::MAX, and          *)
(* checked_mul followed by checked_sub exactly when 10 m + d > 2^63.       *)
(***************************************************************************)
ParseErr(kind) == [kind |-> kind, ok |-> FALSE]
ParseOk(x) == [v |-> x, ok |-> TRUE]

RECURSIVE ParseDigits(_, _, _, _)
ParseDigits(s, i, m, positive) ==
    IF i > Len(s) THEN ParseOk(IF positive THEN m ELSE WrappingNeg(m))
    ELSE IF ~IsDigit(s[i]) THEN ParseErr("InvalidDigit")
    ELSE LET r == MulAdd(m, 10, DigitVal(s[i]))
             fits == /\ r.carry = 0
                     /\ IF positive THEN ~IsNegative(r.v)
                        ELSE ~IsNegative(r.v) \/ r.v = I64Min
         IN  IF ~fits THEN ParseErr(IF positive THEN "PosOverflow" ELSE "NegOverflow")
             ELSE ParseDigits(s, i + 1, r.v, positive)

ParseI64(s) ==
    IF s = <<>> THEN ParseErr("Empty")
    ELSE IF s = <<"+">> \/ s = <<"-">> THEN ParseErr("InvalidDigit")
    ELSE IF s[1] = "+" THEN ParseDigits(s, 2, I64Zero, TRUE)
    ELSE IF s[1] = "-" THEN ParseDigits(s, 2, I64Zero, FALSE)
    ELSE ParseDigits(s, 1, I64Zero, TRUE)

\* <ParseIntError as Display>::fmt
ParseIntErrorDisplay(kind) ==
    CASE kind = "Empty" -> "cannot parse integer from empty string"
      [] kind = "InvalidDigit" -> "invalid digit found in string"
      [] kind = "PosOverflow" -> "number too large to fit in target type"
      [] kind = "NegOverflow" -> "number too small to fit in target type"

(***************************************************************************)
(* Error: the conversions into it that Murmur3Token::try_from uses          *)
(***************************************************************************)
\* impl From<String> for Error
ErrorFromString(msg) == [v |-> msg, kind |-> "General"]

(***************************************************************************)
(* Murmur3Token                                                            *)
(***************************************************************************)
\* #[derive(Constructor)]
Murmur3Token_new(value) == [value |-> value]

\* #[derive(Default)]
Murmur3Token_default == [value |-> I64Zero]

\* faulty variant: the value field compared as an unsigned integer
TokenLtUnsigned(a, b) == U64Lt(a.value, b.value)

\* #[derive(PartialOrd, Ord)]: the fields compared in declaration order
TokenLt(a, b) == I64Lt(a.value, b.value)

\* #[derive(PartialEq, Eq)]
TokenEq(a, b) == a.value = b.value

Ok(x) == [v |-> x, ok |-> TRUE]
Err(e) == [ok |-> FALSE, e |-> e]

\* value.parse().map_err(|error| format!(..).into()).map(Murmur3Token::new)
TryFromParsed(parsed) ==
    IF parsed.ok THEN Ok(Murmur3Token_new(parsed.v))
    ELSE Err(ErrorFromString(<<"Error parsing token: ", ParseIntErrorDisplay(parsed.kind)>>))

\* str::trim for the characters of the model
RECURSIVE TrimStart(_)
TrimStart(s) == IF s # <<>> /\ Head(s) = " " THEN TrimStart(Tail(s)) ELSE s
RECURSIVE TrimEnd(_)
TrimEnd(s) ==
    IF s # <<>> /\ s[Len(s)] = " " THEN TrimEnd(SubSeq(s, 1, Len(s) - 1)) ELSE s

\* faulty variant: the string is trimmed before it is parsed
Murmur3Token_try_from_trimmed(value) == TryFromParsed(ParseI64(TrimEnd(TrimStart(value))))

\* faulty variant: the string is parsed as an unsigned integer
Murmur3Token_try_from_unsigned(value) ==
    IF value # <<>> /\ value[1] = "-" THEN TryFromParsed(ParseErr("InvalidDigit"))
    ELSE TryFromParsed(ParseI64(value))

\* impl TryFrom<String> for Murmur3Token
Murmur3Token_try_from(value) == TryFromParsed(ParseI64(value))

(***************************************************************************)
(* The QueryParams values the caller passes.                               *)
(***************************************************************************)
SomeValue == [b |-> <<7>>, t |-> "Some"]
NullValue == [t |-> "Null"]
NotSetValue == [t |-> "NotSet"]

SimpleValues(vs) == [vals |-> vs, kind |-> "Simple"]
NamedValues(vs) == [vals |-> vs, kind |-> "Named"]

ValuesOptions ==
    { None,
      Some(SimpleValues(<<>>)),
      Some(SimpleValues(<<SomeValue, NullValue>>)),
      Some(NamedValues(<<[name |-> <<97>>, value |-> SomeValue]>>)) }

\* the fields that serialize never reads
RoutingOptions ==
    [is_idempotent : BOOLEAN,
     keyspace : {None, Some("ks")},
     token : {None, Some([value |-> I64Max])},
     routing_key : {None, Some(<<SomeValue>>)}]

WithRouting(qp, r) ==
    [qp EXCEPT !.is_idempotent = r.is_idempotent, !.keyspace = r.keyspace,
               !.token = r.token, !.routing_key = r.routing_key]

\* routing fields all unset, or all set
RoutingSamples ==
    { [is_idempotent |-> FALSE, keyspace |-> None, token |-> None, routing_key |-> None],
      [is_idempotent |-> TRUE, keyspace |-> Some("ks"),
       token |-> Some([value |-> I64Max]), routing_key |-> Some(<<SomeValue>>)] }

ParamsSet ==
    { [consistency |-> c, with_names |-> wn, values |-> vs, page_size |-> ps,
       paging_state |-> pg, serial_consistency |-> sc, timestamp |-> ts,
       is_idempotent |-> r.is_idempotent, keyspace |-> r.keyspace,
       token |-> r.token, routing_key |-> r.routing_key] :
        c \in {"One", "Quorum"}, wn \in BOOLEAN, vs \in ValuesOptions,
        ps \in {None, Some(100)}, pg \in {None, Some(<<1, 2>>)},
        sc \in {None, Some("Serial")}, ts \in {None, Some(I64MinusOne)},
        r \in RoutingSamples }

(***************************************************************************)
(* The caller's cursor before the first call: a buffer that may already    *)
(* hold bytes, and a position at its start (Cursor::new), inside it or at  *)
(* its end.                                                                *)
(***************************************************************************)
StartCursors ==
    UNION { { [buf |-> [i \in 1..n |-> 170 + i], pos |-> p, log |-> <<>>] :
                p \in 0..n } : n \in 0..MaxPrefix }

TokIdle ==
    /\ input = None /\ result = None /\ tokA = None /\ tokB = None /\ rt = None
ErrIdle == cause = None /\ err = None
SerIdle(c) ==
    /\ cursor = c /\ start = c /\ before = c
    /\ last = None /\ written = <<>> /\ hist = <<>> /\ calls = 0 /\ count = None

Init == (\E c \in StartCursors : SerIdle(c)) /\ TokIdle /\ ErrIdle

\* one call serialize(&qp, &mut cursor)
Serialize(qp) ==
    LET c == serialize(qp, [cursor EXCEPT !.log = <<>>])
    IN  /\ calls < MaxCalls
        /\ ~(calls > 0 /\ Len(cursor.buf) > MaxBuf)
        /\ cursor' = [c EXCEPT !.log = <<>>]
        /\ before' = cursor
        /\ last' = Some(qp)
        /\ written' = c.log
        /\ hist' = hist \o Encoding(qp)
        /\ calls' = calls + 1
        /\ UNCHANGED <<start, count, tokVars, errVars>>

Next == \E qp \in ParamsSet : Serialize(qp)

Spec == Init /\ [][Next]_vars

\* the bytes the last call wrote: what lies between the position it began at
\* and the position it left
out == SubSeq(cursor.buf, before.pos + 1, cursor.pos)

(***************************************************************************)
(* SpecCount: calls on a fresh cursor with a positional value collection   *)
(* of a given size, up to sizes past what 16 bits hold.  The state keeps   *)
(* the number of entries, the first bytes written and how many bytes were  *)
(* written, not the whole buffer.                                          *)
(***************************************************************************)
CountSizes == (0..MaxCount) \cup {32767, 32768, 65535, 65536, 65537}

CountParams(n) ==
    [DefaultParams EXCEPT !.values = Some(SimpleValues([i \in 1..n |-> NotSetValue]))]

HeadLen == 5    \* consistency (2), flags (1), count (2)

SerializeCount(n) ==
    LET c == serialize(CountParams(n), NewCursor)
    IN  /\ count = None
        /\ count' = Some([entries |-> QueryValuesLen(CountParams(n).values.v),
                          head |-> SubSeq(c.buf, 1, HeadLen),
                          len |-> Len(c.buf)])
        /\ UNCHANGED <<cursor, start, before, last, written, hist, calls,
                       tokVars, errVars>>

InitCount == SerIdle(NewCursor) /\ TokIdle /\ ErrIdle

NextCount == \E n \in CountSizes : SerializeCount(n)

SpecCount == InitCount /\ [][NextCount]_vars

(***************************************************************************)
(* SpecToken: the caller builds tokens with new and default, parses them   *)
(* with try_from, and renders a value, parses the rendering and renders    *)
(* the parsed token's value again.  A run exercises one of the three.      *)
(***************************************************************************)
\* i64 values in ascending order
I64Samples ==
    << I64Min, <<32768, 0, 0, 1>>, <<65535, 65535, 65535, 0>>,
       <<65535, 65535, 65535, 65526>>, I64MinusOne, I64Zero, I64One,
       <<0, 0, 0, 10>>, <<0, 0, 0, 65535>>, <<0, 0, 1, 0>>, <<0, 0, 1883, 52501>>,
       <<3552, 46771, 42852, 0>>, <<32767, 65535, 65535, 65534>>, I64Max >>

ZeroIndex == CHOOSE i \in 1..Len(I64Samples) : I64Samples[i] = I64Zero

TokenAlphabet == {"-", "+", "0", "7", " ", "a"}

EdgeStrings ==
    { \* i64::MAX, i64::MAX + 1, i64::MIN, i64::MIN - 1
      <<"9", "2", "2", "3", "3", "7", "2", "0", "3", "6", "8", "5", "4", "7", "7", "5", "8", "0", "7">>,
      <<"9", "2", "2", "3", "3", "7", "2", "0", "3", "6", "8", "5", "4", "7", "7", "5", "8", "0", "8">>,
      <<"-", "9", "2", "2", "3", "3", "7", "2", "0", "3", "6", "8", "5", "4", "7", "7", "5", "8", "0", "8">>,
      <<"-", "9", "2", "2", "3", "3", "7", "2", "0", "3", "6", "8", "5", "4", "7", "7", "5", "8", "0", "9">>,
      <<"1", "2", "3", "4", "5", "6", "7", "8", "9">>, <<"a", "b", "c">>,
      <<"9", "9", "9", "9", "9", "9", "9", "9", "9", "9", "9", "9", "9", "9", "9", "9", "9", "9", "9", "9", "9", "9", "9">>,
      <<"0", "0", "0", "0", "0", "0", "0", "0", "0", "0", "0", "0", "0", "0", "0", "0", "0", "0", "0", "0", "0", "0", "4", "2">>,
      <<" ", "1", "2">>, <<"1", "2", " ">>, <<"1", "2", "\n">>, <<"1", "_", "0">>,
      <<"1", ".", "5">>, <<"0", "x", "1", "0">>, <<"1", "e", "3">> }

TokenStrings ==
    EdgeStrings \cup UNION { [1..n -> TokenAlphabet] : n \in 0..MaxStrLen }

TryFrom(s) ==
    /\ tokA = None /\ tokB = None /\ rt = None
    /\ input' = Some(s)
    /\ result' = Murmur3Token_try_from(s)
    /\ UNCHANGED <<tokA, tokB, rt, serVars, errVars>>

NewToken(i) ==
    /\ input = None /\ rt = None
    /\ \/ tokA' = Some([tok |-> Murmur3Token_new(I64Samples[i]), idx |-> i])
          /\ UNCHANGED tokB
       \/ tokB' = Some([tok |-> Murmur3Token_new(I64Samples[i]), idx |-> i])
          /\ UNCHANGED tokA
    /\ UNCHANGED <<input, result, rt, serVars, errVars>>

DefaultToken ==
    /\ input = None /\ rt = None
    /\ \/ tokA' = Some([tok |-> Murmur3Token_default, idx |-> ZeroIndex])
          /\ UNCHANGED tokB
       \/ tokB' = Some([tok |-> Murmur3Token_default, idx |-> ZeroIndex])
          /\ UNCHANGED tokA
    /\ UNCHANGED <<input, result, rt, serVars, errVars>>

RoundTrip(x) ==
    LET s == I64ToString(x)
        r == Murmur3Token_try_from(s)
    IN  /\ input = None /\ tokA = None /\ tokB = None
        /\ rt' = Some([s |-> s, value |-> x, ok |-> r.ok,
                       back |-> IF r.ok THEN I64ToString(r.v.value) ELSE <<>>])
        /\ UNCHANGED <<input, result, tokA, tokB, serVars, errVars>>

InitToken == SerIdle(NewCursor) /\ TokIdle /\ ErrIdle

NextToken ==
    \/ \E s \in TokenStrings : TryFrom(s)
    \/ \E i \in 1..Len(I64Samples) : NewToken(i)
    \/ DefaultToken
    \/ \E i \in 1..Len(I64Samples) : RoundTrip(I64Samples[i])

SpecToken == InitToken /\ [][NextToken]_vars

(***************************************************************************)
(* Error: Display and the From conversions.  A cause of a type defined     *)
(* outside this crate (io::Error, FromUtf8Error, uuid::Error) or in a file *)
(* not among the source files (CompressionError, CdrsError) is the pair of *)
(* its Display and its Debug rendering.                                    *)
(***************************************************************************)
\* <str as Debug>::fmt: the string in double quotes, with a quote, a backslash
\* and a newline escaped
EscapeDebug(ch) ==
    CASE ch = "\"" -> <<"\\", "\"">>
      [] ch = "\\" -> <<"\\", "\\">>
      [] ch = "\n" -> <<"\\", "n">>
      [] OTHER -> <<ch>>

DebugStr(msg) ==
    <<"\"">> \o Concat([i \in 1..Len(msg) |-> EscapeDebug(msg[i])]) \o <<"\"">>

\* impl fmt::Display for Error
ErrorDisplay(e) ==
    CASE e.kind = "Io" -> <<"IO error: ">> \o e.v.display
      [] e.kind = "Compression" -> <<"Compressor error: ">> \o e.v.display
      [] e.kind = "Server" -> <<"Server error: ">> \o DebugStr(e.v.message)
      [] e.kind = "FromUtf8" -> <<"FromUtf8Error error: ">> \o e.v.debug
      [] e.kind = "UuidParse" -> <<"UUIDParse error: ">> \o e.v.debug
      [] e.kind = "General" -> <<"GeneralParsing error: ">> \o DebugStr(e.v)

\* impl From<io::Error>, From<CdrsError>, From<CompressionError>,
\* From<FromUtf8Error>, From<UuidError> for Error
ErrorFromIo(e) == [v |-> e, kind |-> "Io"]
ErrorFromServer(e) == [v |-> e, kind |-> "Server"]
ErrorFromCompression(e) == [v |-> e, kind |-> "Compression"]
ErrorFromUtf8(e) == [v |-> e, kind |-> "FromUtf8"]
ErrorFromUuid(e) == [v |-> e, kind |-> "UuidParse"]

\* impl<'a> From<&'a str> for Error: err.to_string() copies the characters
ErrorFromStr(msg) == [v |-> [i \in 1..Len(msg) |-> msg[i]], kind |-> "General"]

IoCauses ==
    { [display |-> <<"unexpected end of file">>, debug |-> <<"Kind(UnexpectedEof)">>],
      [display |-> <<"peer gone">>,
       debug |-> <<"Custom { kind: ConnectionReset, error: ">>
                 \o DebugStr(<<"peer gone">>) \o <<" }">>] }

Utf8Causes ==
    { [display |-> <<"invalid utf-8 sequence of 1 bytes from index 0">>,
       debug |-> <<"FromUtf8Error { bytes: [255], error: Utf8Error { valid_up_to: 0, error_len: Some(1) } }">>],
      [display |-> <<"incomplete utf-8 byte sequence from index 1">>,
       debug |-> <<"FromUtf8Error { bytes: [97, 195], error: Utf8Error { valid_up_to: 1, error_len: None } }">>] }

UuidCauses ==
    { [display |-> <<"invalid length: expected 16 bytes, found 3">>,
       debug |-> <<"Error(ByteLength { len: 3 })">>] }

CompressionCauses ==
    { [display |-> <<"Snappy Error: corrupt input">>,
       debug |-> <<"Snappy(Corrupt)">>],
      [display |-> <<"Lz4 Error: truncated block">>,
       debug |-> <<"Lz4(\"truncated block\")">>] }

MsgAlphabet == {"a", "n", "\"", "\\", "\n"}

Messages == UNION { [1..n -> MsgAlphabet] : n \in 0..MaxMsgLen }

ServerCauses == { [message |-> m] : m \in [1..1 -> MsgAlphabet] }

Convert(type, c, e) ==
    /\ cause' = Some([v |-> c, type |-> type])
    /\ err' = Some(e)
    /\ UNCHANGED <<serVars, tokVars>>

InitError == SerIdle(NewCursor) /\ TokIdle /\ ErrIdle

NextError ==
    \/ \E m \in Messages : Convert("String", m, ErrorFromString(m))
    \/ \E m \in Messages : Convert("str", m, ErrorFromStr(m))
    \/ \E c \in IoCauses : Convert("io", c, ErrorFromIo(c))
    \/ \E c \in Utf8Causes : Convert("utf8", c, ErrorFromUtf8(c))
    \/ \E c \in CompressionCauses : Convert("compression", c, ErrorFromCompression(c))
    \/ \E c \in UuidCauses : Convert("uuid", c, ErrorFromUuid(c))
    \/ \E c \in ServerCauses : Convert("server", c, ErrorFromServer(c))

SpecError == InitError /\ [][NextError]_vars

(***************************************************************************)
(* Claims about serialize.                                                 *)
(***************************************************************************)
FieldFlags ==
    << <<"values", VALUE>>, <<"page_size", PAGE_SIZE>>,
       <<"paging_state", WITH_PAGING_STATE>>,
       <<"serial_consistency", WITH_SERIAL_CONSISTENCY>>,
       <<"timestamp", WITH_DEFAULT_TIMESTAMP>> >>

Present(qp, field) ==
    CASE field = "values" -> qp.values.some
      [] field = "page_size" -> qp.page_size.some
      [] field = "paging_state" -> qp.paging_state.some
      [] field = "serial_consistency" -> qp.serial_consistency.some
      [] field = "timestamp" -> qp.timestamp.some

Range(s) == {s[i] : i \in 1..Len(s)}

\* C1: the flags byte a call writes (the third byte) has VALUE, PAGE_SIZE,
\* WITH_PAGING_STATE, WITH_SERIAL_CONSISTENCY and WITH_DEFAULT_TIMESTAMP set iff
\* the field is present, WITH_NAMES_FOR_VALUES set iff with_names is true whether
\* or not values is present, and no other bit set.
C1_FlagsByte ==
    last.some =>
        LET qp == last.v
            b == out[3]
        IN  /\ \A i \in 1..Len(FieldFlags) :
                BitSet(b, FieldFlags[i][2]) <=> Present(qp, FieldFlags[i][1])
            /\ BitSet(b, WITH_NAMES_FOR_VALUES) <=> qp.with_names
            /\ b \in 0..63

C1_Witness ==
    /\ last.some /\ last.v.with_names /\ ~last.v.values.some
    /\ last.v.page_size.some /\ ~last.v.timestamp.some
    /\ out[3] = WITH_NAMES_FOR_VALUES + PAGE_SIZE

\* the bytes of one field as spec section 6 lays them out, empty when absent
Layout(qp, field) ==
    IF ~Present(qp, field) THEN <<>>
    ELSE CASE field = "values" ->
                <<Len(qp.values.v.vals) \div 256, Len(qp.values.v.vals) % 256>>
                \o QueryValuesBytes(qp.values.v)
           [] field = "page_size" -> IntBytes(qp.page_size.v)
           [] field = "paging_state" ->
                <<0, 0, 0, Len(qp.paging_state.v)>> \o qp.paging_state.v
           [] field = "serial_consistency" ->
                ShortBytes(ConsistencyCode(qp.serial_consistency.v))
           [] field = "timestamp" -> LongBytes(qp.timestamp.v)

\* C2: the bytes a call writes are consistency (2 bytes), flags (1 byte), then
\* each present field in the order values, page_size, paging_state,
\* serial_consistency, timestamp, with nothing in between and nothing for an
\* absent field; with every optional field absent that is exactly 3 bytes.
C2_FixedOrder ==
    last.some =>
        LET qp == last.v
        IN  /\ Len(out) >= 3
            /\ SubSeq(out, 1, 2) = ShortBytes(ConsistencyCode(qp.consistency))
            /\ SubSeq(out, 4, Len(out)) =
                  Layout(qp, "values") \o Layout(qp, "page_size")
                  \o Layout(qp, "paging_state") \o Layout(qp, "serial_consistency")
                  \o Layout(qp, "timestamp")
            /\ Len(out) = 3 + (IF qp.values.some
                                THEN 2 + Len(QueryValuesBytes(qp.values.v)) ELSE 0)
                             + (IF qp.page_size.some THEN 4 ELSE 0)
                             + (IF qp.paging_state.some
                                THEN 4 + Len(qp.paging_state.v) ELSE 0)
                             + (IF qp.serial_consistency.some THEN 2 ELSE 0)
                             + (IF qp.timestamp.some THEN 8 ELSE 0)
            /\ (\A i \in 1..Len(FieldFlags) : ~Present(qp, FieldFlags[i][1]))
                  => Len(out) = 3
            /\ qp = DefaultParams => out = <<0, 1, 0>>
            /\ qp = [DefaultParams EXCEPT !.page_size = Some(100)]
                  => out = <<0, 1, 4, 0, 0, 0, 100>>

C2_Witness ==
    /\ last.some
    /\ \A i \in 1..Len(FieldFlags) : Present(last.v, FieldFlags[i][1])
    /\ Len(last.v.values.v.vals) > 0
    /\ Len(out) > 3

\* C3: in what one call writes, each of the five optional fields is written iff
\* its bit is set in the flags byte of that same output.
C3_FlagIffWritten ==
    last.some =>
        \A i \in 1..Len(FieldFlags) :
            (FieldFlags[i][1] \in Range(written)) <=> BitSet(out[3], FieldFlags[i][2])

C3_Witness ==
    /\ last.some /\ last.v.values.some /\ Len(last.v.values.v.vals) = 0
    /\ "values" \in Range(written) /\ BitSet(out[3], VALUE)
    /\ "timestamp" \notin Range(written) /\ ~BitSet(out[3], WITH_DEFAULT_TIMESTAMP)

\* C4: the bytes a call writes are the same whatever is_idempotent, keyspace,
\* token and routing_key are: changing only those four fields of the value the
\* call was given leaves its encoding unchanged.
C4_RoutingFieldsNotSerialized ==
    last.some =>
        \A r \in RoutingOptions : Encoding(WithRouting(last.v, r)) = out

C4_Witness ==
    /\ last.some /\ last.v.is_idempotent /\ last.v.keyspace.some
    /\ last.v.token.some /\ last.v.routing_key.some /\ Len(out) >= 3

C10_CountIsLength ==
    count.some =>
        /\ count.v.head[4] * 256 + count.v.head[5] = count.v.entries
        /\ BitSet(count.v.head[3], VALUE)
        /\ count.v.entries = 0 => count.v.len = HeadLen

(***************************************************************************)
(* Claims about Murmur3Token.                                              *)
(***************************************************************************)
StripSign(s) == IF s # <<>> /\ s[1] \in {"+", "-"} THEN Tail(s) ELSE s

RECURSIVE StripZeros(_)
StripZeros(d) == IF Len(d) > 1 /\ d[1] = "0" THEN StripZeros(Tail(d)) ELSE d

\* a <= b for digit strings of one length
DigitsLe(a, b) ==
    \/ a = b
    \/ \E i \in 1..Len(a) :
          /\ DigitVal(a[i]) < DigitVal(b[i])
          /\ \A j \in 1..(i - 1) : a[j] = b[j]

MaxDigits == <<"9", "2", "2", "3", "3", "7", "2", "0", "3", "6", "8", "5", "4", "7", "7", "5", "8", "0", "7">>
MinDigits == <<"9", "2", "2", "3", "3", "7", "2", "0", "3", "6", "8", "5", "4", "7", "7", "5", "8", "0", "8">>

\* s is an optional sign and one or more decimal digits, and the number they
\* write lies in -2^63 .. 2^63 - 1
IsDecimalI64(s) ==
    LET body == StripSign(s)
        d == StripZeros(body)
        lim == IF s # <<>> /\ s[1] = "-" THEN MinDigits ELSE MaxDigits
    IN  /\ Len(body) >= 1
        /\ \A i \in 1..Len(body) : IsDigit(body[i])
        /\ Len(d) < Len(lim) \/ (Len(d) = Len(lim) /\ DigitsLe(d, lim))

\* the decimal form of the number s writes: no plus sign, no leading zeros, no
\* minus sign on zero
Canonical(s) ==
    LET d == StripZeros(StripSign(s))
    IN  IF s[1] = "-" /\ d # <<"0">> THEN <<"-">> \o d ELSE d

ParseCauses ==
    { "cannot parse integer from empty string", "invalid digit found in string",
      "number too large to fit in target type", "number too small to fit in target type" }

\* C6: try_from succeeds, wrapping the parsed value, exactly when the string is
\* a signed 64-bit decimal integer; for every other string (empty, non-numeric,
\* with surrounding whitespace, out of range) it fails with a General error
\* whose message is "Error parsing token: " followed by the parse cause.
C6_TryFromStrict ==
    input.some =>
        IF IsDecimalI64(input.v)
        THEN /\ result.ok
             /\ I64ToString(result.v.value) = Canonical(input.v)
        ELSE /\ ~result.ok
             /\ result.e.kind = "General"
             /\ Len(result.e.v) = 2
             /\ result.e.v[1] = "Error parsing token: "
             /\ result.e.v[2] \in ParseCauses
             /\ input.v = <<>> => result.e.v[2] = "cannot parse integer from empty string"

C6_Witness ==
    /\ input.some /\ input.v = <<" ", "7">>
    /\ ~result.ok /\ result.e.kind = "General"
    /\ result.e.v = <<"Error parsing token: ", "invalid digit found in string">>

\* C7: a value rendered as a decimal string, parsed with try_from and rendered
\* again from the parsed token's value gives the first string back, for the
\* minimum, the maximum, zero and the values between.
C7_RoundTrip ==
    rt.some => rt.v.ok /\ rt.v.back = rt.v.s

C7_Witness ==
    /\ rt.some /\ rt.v.value = I64Min /\ rt.v.ok
    /\ rt.v.s = <<"-", "9", "2", "2", "3", "3", "7", "2", "0", "3", "6", "8", "5", "4", "7", "7", "5", "8", "0", "8">>
    /\ rt.v.back = rt.v.s

\* C9: tokens compare as their integers do: a < b iff a.value < b.value,
\* a == b iff a.value = b.value, exactly one of a < b, a == b, b < a holds; new(i)
\* wraps i and the default token wraps 0.  (I64Samples is in ascending order,
\* so the integers compare as their indices.)
C9_OrderByValue ==
    /\ \A t \in {tokA, tokB} : t.some => t.v.tok.value = I64Samples[t.v.idx]
    /\ (tokA.some /\ tokB.some) =>
          LET a == tokA.v.tok
              b == tokB.v.tok
              lt == TokenLt(a, b)
              eq == TokenEq(a, b)
              gt == TokenLt(b, a)
          IN  /\ lt <=> tokA.v.idx < tokB.v.idx
              /\ eq <=> tokA.v.idx = tokB.v.idx
              /\ gt <=> tokA.v.idx > tokB.v.idx
              /\ lt <=> I64Lt(a.value, b.value)
              /\ eq <=> a.value = b.value
              /\ Cardinality({x \in {<<1, lt>>, <<2, eq>>, <<3, gt>>} : x[2]}) = 1

C9_Witness ==
    /\ tokA.some /\ tokB.some
    /\ tokA.v.tok.value = I64MinusOne /\ tokB.v.tok = Murmur3Token_default
    /\ TokenLt(tokA.v.tok, tokB.v.tok) /\ ~TokenEq(tokA.v.tok, tokB.v.tok)

(***************************************************************************)
(* Claims about Error.                                                     *)
(***************************************************************************)
Contains(t, sub) ==
    \E i \in 0..(Len(t) - Len(sub)) : SubSeq(t, i + 1, i + Len(sub)) = sub

CategoryPrefixes ==
    { "IO error: ", "Compressor error: ", "FromUtf8Error error: ", "UUIDParse error: ",
      "GeneralParsing error: " }

\* the cause's own description: its Display rendering, the string itself for a
\* string
Description(c) == IF c.type \in {"String", "str"} THEN c.v ELSE c.v.display

\* C8: for a conversion from an I/O, UTF-8, compression or identifier-parse
\* fault, an owned string or a string literal, the Display rendering of the
\* Error is a category prefix followed by text that contains the cause's own
\* description.
C8_DisplayContainsCause ==
    (err.some /\ cause.v.type \in {"io", "utf8", "compression", "uuid", "String", "str"}) =>
        LET d == ErrorDisplay(err.v)
        IN  /\ d[1] \in CategoryPrefixes
            /\ Contains(Tail(d), Description(cause.v))

====
